---- MODULE Spec2Model ----
(***************************************************************************)
(* i.ikonos.toar: conversion of IKONOS digital numbers to spectral         *)
(* radiance or top-of-atmosphere reflectance.                              *)
(*                                                                         *)
(* The model follows src/i.ikonos.toar.py one statement group at a time:   *)
(* the option parser, main()'s set-up, the acquisition metadata, the       *)
(* per-band loop (region, coefficients, radiance, reflectance, metadata,   *)
(* rename), the end of main() and the interpreter's exit hooks.            *)
(*                                                                         *)
(* Strings are sequences of tokens, so that '' is <<>>, "in", split and    *)
(* "%s.%s" formatting are computed and not assumed: "Red@m1" is            *)
(* <<"Red", "@", "m1">>.  Floats are scaled integers (bandwidth and Esun   *)
(* in tenths, Earth-Sun distance in 10^-6 AU).                             *)
(*                                                                         *)
(* The GRASS library is modelled by what the script relies on:             *)
(* grass.parser() ends the process when an option declared "required: yes" *)
(* is missing; run_command and mapcalc end main() when the command fails;  *)
(* use_temp_region() registers del_temp_region with atexit, and            *)
(* del_temp_region() does nothing once WIND_OVERRIDE is unset; commands    *)
(* replace an existing map only in a session with --overwrite.             *)
(* utc_to_esd.py (AcquisitionTime, jd_to_esd) is not part of the sources   *)
(* at hand and is modelled from the specification.                         *)
(***************************************************************************)
EXTENDS Integers, Sequences, FiniteSets, TLC

\* ------------------------------------------------------------------ bounds
\* longest band list the model enumerates
MaxBands == 2

\* --------------------------------------------------------------- strings
\* Python truthiness of a string: '' is false
Truthy(s) == s # <<>>

\* x in s
Contains(s, x) == \E j \in 1..Len(s) : s[j] = x

\* index of the first x in s, Len(s)+1 when there is none
RECURSIVE FirstIndex(_, _, _)
FirstIndex(s, x, j) ==
    IF j > Len(s) THEN j
    ELSE IF s[j] = x THEN j
    ELSE FirstIndex(s, x, j + 1)

\* index of the last x in s, 0 when there is none
RECURSIVE LastIndex(_, _, _)
LastIndex(s, x, j) ==
    IF j < 1 THEN 0
    ELSE IF s[j] = x THEN j
    ELSE LastIndex(s, x, j - 1)

\* s.split(x)[0]
SplitHead(s, x) == SubSeq(s, 1, FirstIndex(s, x, 1) - 1)

\* grass.basename(path): the path without its leading directories
Basename(path) == SubSeq(path, LastIndex(path, "/", Len(path)) + 1, Len(path))

\* s starts with prefix p (the glob p*)
StartsWith(s, p) == Len(s) >= Len(p) /\ SubSeq(s, 1, Len(p)) = p

\* "%s.%s" % (a, b)
DotJoin(a, b) == a \o <<".">> \o b

\* ------------------------------------------------------------- constants
\* CC: band -> (CalCoef pre 2/22/01, CalCoef post 2/22/01, bandwidth*10, Esun*10)
CC ==
    (<<"Pan">>   :> <<161, 161, 4030, 13758>>) @@
    (<<"Blue">>  :> <<633, 728,  713, 19309>>) @@
    (<<"Green">> :> <<649, 727,  886, 18548>>) @@
    (<<"Red">>   :> <<840, 949,  658, 15565>>) @@
    (<<"NIR">>   :> <<746, 843,  954, 11569>>)

\* cc_update = datetime(2001, 2, 22)
cc_update == <<2001, 2, 22>>

\* datetime.__lt__ on (year, month, day)
DateLess(a, b) ==
    \/ a[1] < b[1]
    \/ a[1] = b[1] /\ a[2] < b[2]
    \/ a[1] = b[1] /\ a[2] = b[2] /\ a[3] < b[3]

\* os.getpid(), as it is printed into names
Pid == "4711"

\* the file grass.tempfile() makes for this process: <dir>/<pid>.<n>
Tempfile == <<".tmp", "/", "host", "/", Pid, ".", "0">>

\* the pattern cleanup() removes: 'tmp.%s*' % os.getpid()
CleanupPrefix == <<"tmp", ".", Pid>>

\* ------------------------------------------- acquisition time (utc_to_esd)
\* cos of an angle given in tenths of a degree, times 10^4, for |t| <= 900
\* (Bhaskara's rational approximation)
CosQuarter(t) == ((3240000 - 4 * t * t) * 100) \div ((3240000 + t * t) \div 100)

\* cos of any angle t >= 0 in tenths of a degree, times 10^4
CosTenths(t) ==
    LET r == t % 3600
    IN IF r <= 900 THEN CosQuarter(r)
       ELSE IF r <= 2700 THEN 0 - CosQuarter(r - 1800)
       ELSE CosQuarter(r - 3600)

\* jd_to_esd: Earth-Sun distance (10^-6 AU) of a day of the year, the
\* orbital-eccentricity approximation 1 - 0.01672 cos(0.9856 (d - 4))
jd_to_esd(d) ==
    LET t == (9856 * (d - 4 + 365)) \div 1000
    IN 1000000 - (1672 * CosTenths(t)) \div 1000

IsLeap(y) == (y % 4 = 0 /\ y % 100 # 0) \/ y % 400 = 0

DaysBefore(y, m) ==
    LET cum == <<0, 31, 59, 90, 120, 151, 181, 212, 243, 273, 304, 334>>
    IN cum[m] + (IF m > 2 /\ IsLeap(y) THEN 1 ELSE 0)

\* day of the year of a calendar date
DayOfYear(y, m, d) == DaysBefore(y, m) + d

\* AcquisitionTime(utc): the parsed time stamp with its Earth-Sun distance;
\* a string that is no time stamp does not parse
AcquisitionTime(s) ==
    IF Len(s) = 3
    THEN [ok |-> TRUE, year |-> s[1], month |-> s[2], day |-> s[3],
          esd |-> jd_to_esd(DayOfYear(s[1], s[2], s[3]))]
    ELSE [ok |-> FALSE, year |-> 0, month |-> 0, day |-> 0, esd |-> 0]

\* ------------------------------------------------------------------ state
VARIABLES
    options,        \* the parsed options: band, outputsuffix, utc, doy, sea
    flags,          \* the parsed flags: r (radiance only), k (keep region)
    overwrite,      \* GRASS_OVERWRITE of the session (--overwrite)
    pc,             \* position in the script
    status,         \* how the process ends
    hooks,          \* atexit's registered functions, in registration order
    k,              \* position of the loop in the band list
    tmp,            \* main()'s tmp
    tmp_rad,        \* global tmp_rad
    tmp_toar,       \* global tmp_toar
    acq_dat,        \* acquisition date
    esd,            \* Earth-Sun distance
    sza,            \* Sun zenith angle
    cc,             \* calibration coefficient of the current band
    bw,             \* bandwidth of the current band
    rasters,        \* the raster maps of the mapset: name -> content
    wind,           \* the caller's computational region
    WIND_OVERRIDE,  \* the environment's WIND_OVERRIDE ('' when unset)
    temp_region,    \* the saved region WIND_OVERRIDE names
    log             \* the commands run by the raster engine, in order

vars == <<options, flags, overwrite, pc, status, hooks, k, tmp, tmp_rad,
          tmp_toar, acq_dat, esd, sza, cc, bw, rasters, wind, WIND_OVERRIDE,
          temp_region, log>>

inputs == <<options, flags, overwrite>>
locals == <<tmp, tmp_rad, tmp_toar, acq_dat, esd, sza, cc, bw>>
regionvars == <<wind, WIND_OVERRIDE, temp_region>>

\* main()'s reading of options and flags (lines 197-203)
spectral_bands == options.band
outputsuffix == options.outputsuffix
utc == options.utc
doy == options.doy
sea == options.sea
radiance == flags.r
keep_region == flags.k

\* the band of the current iteration
band == spectral_bands[k]

\* the region a raster map covers
Extent(name) == <<"extent">> \o name

\* the region of the caller before the run
UserRegion == <<"extent", "user">>

\* the region the raster engine works in
ActiveRegion == IF Truthy(WIND_OVERRIDE) THEN temp_region ELSE wind

\* the name use_temp_region() saves the region under
TempRegionName == <<"tmp", ".", "i.ikonos.toar", ".", Pid>>

Logged(cmd, arg) == Append(log, [cmd |-> cmd, k |-> k, arg |-> arg])

\* the interpreter leaves main() with an error: the exit hooks are next
Abort(why) ==
    /\ pc' = "exit"
    /\ status' = why

\* ------------------------------------------------------- the raster engine
\* a map that a command names exists
Exists(name) == name \in DOMAIN rasters

\* the store with map name holding content
Put(store, name, content) ==
    [n \in DOMAIN store \cup {name} |-> IF n = name THEN content ELSE store[n]]

\* the store without the maps of gone
Drop(store, gone) == [n \in DOMAIN store \ gone |-> store[n]]

\* r.mapcalc refuses a missing operand, and an existing output unless the
\* session overwrites
MapcalcRuns(dst, srcs) ==
    /\ \A s \in srcs : Exists(s)
    /\ (Exists(dst) => overwrite)

\* g.rename refuses a missing map, and an existing new name unless the
\* session overwrites
RenameRuns(old, new) ==
    /\ Exists(old)
    /\ (Exists(new) => overwrite)

\* ------------------------------------------------------------- exit hooks
\* cleanup() with the pattern tmp.<pid>, without its wildcard
cleanup_exact ==
    /\ rasters' = Drop(rasters, {n \in DOMAIN rasters : n = CleanupPrefix})
    /\ log' = Logged("g.remove", [type |-> "rast", pattern |-> CleanupPrefix])

\* cleanup(): g.remove -f type=rast pattern=tmp.<pid>*
cleanup ==
    /\ rasters' = Drop(rasters, {n \in DOMAIN rasters : StartsWith(n, CleanupPrefix)})
    /\ log' = Logged("g.remove", [type |-> "rast", pattern |-> CleanupPrefix])

\* grass.del_temp_region(): pops WIND_OVERRIDE and removes the saved region;
\* with WIND_OVERRIDE unset the pop raises and the function does nothing
del_temp_region ==
    IF Truthy(WIND_OVERRIDE)
    THEN /\ WIND_OVERRIDE' = <<>>
         /\ temp_region' = <<>>
         /\ log' = Logged("g.remove", [type |-> "region", name |-> WIND_OVERRIDE])
    ELSE UNCHANGED <<WIND_OVERRIDE, temp_region, log>>

\* grass.use_temp_region(): saves the region under a temporary name, makes
\* it the region of this process and registers del_temp_region at exit
use_temp_region ==
    /\ temp_region' = ActiveRegion
    /\ WIND_OVERRIDE' = TempRegionName
    /\ hooks' = Append(hooks, "del_temp_region")
    /\ log' = Logged("g.region", [save |-> TempRegionName])

\* ---------------------------------------------------------------- actions
\* options, flags = grass.parser(); atexit.register(cleanup)
\* utc is declared "required: yes": without it the parser ends the process
Parser ==
    /\ pc = "parser"
    /\ IF Truthy(utc)
       THEN /\ hooks' = Append(hooks, "cleanup")
            /\ pc' = "setup"
            /\ UNCHANGED status
       ELSE /\ pc' = "done"
            /\ status' = "parser_error"
            /\ UNCHANGED hooks
    /\ UNCHANGED <<inputs, k, locals, rasters, regionvars, log>>

\* Setup with the test of keep_region the wrong way round
SetupInverted ==
    /\ pc = "setup"
    /\ IF keep_region
       THEN use_temp_region
       ELSE UNCHANGED <<temp_region, WIND_OVERRIDE, hooks, log>>
    /\ tmp' = <<"tmp", ".">> \o Basename(Tempfile)
    /\ pc' = "metadata"
    /\ UNCHANGED <<inputs, status, k, tmp_rad, tmp_toar, acq_dat, esd, sza,
                   cc, bw, rasters, wind>>

\* Temporary Region and Files
Setup ==
    /\ pc = "setup"
    /\ IF ~keep_region
       THEN use_temp_region
       ELSE UNCHANGED <<temp_region, WIND_OVERRIDE, hooks, log>>
    /\ tmp' = <<"tmp", ".">> \o Basename(Tempfile)
    /\ pc' = "metadata"
    /\ UNCHANGED <<inputs, status, k, tmp_rad, tmp_toar, acq_dat, esd, sza,
                   cc, bw, rasters, wind>>

\* Global Metadata: Earth-Sun distance, Sun Zenith Angle
Metadata ==
    /\ pc = "metadata"
    /\ LET acq_utc == AcquisitionTime(utc)
       IN IF ~acq_utc.ok
          THEN Abort("ValueError") /\ UNCHANGED <<acq_dat, esd, sza, k>>
          ELSE /\ acq_dat' = <<acq_utc.year, acq_utc.month, acq_utc.day>>
               /\ IF Truthy(doy)
                  THEN /\ esd' = jd_to_esd(doy[1])
                       /\ sza' = 90 - sea
                       /\ pc' = "region" /\ k' = 1
                       /\ UNCHANGED status
                  ELSE IF Truthy(utc)
                  THEN /\ esd' = acq_utc.esd
                       /\ sza' = 90 - sea
                       /\ pc' = "region" /\ k' = 1
                       /\ UNCHANGED status
                  ELSE /\ Abort("fatal: Either the UTC string or the Day-of-Year (doy) are required!")
                       /\ UNCHANGED <<esd, sza, k>>
    /\ UNCHANGED <<inputs, hooks, tmp, tmp_rad, tmp_toar, cc, bw, rasters,
                   regionvars, log>>

\* MatchRegion without the test of keep_region
MatchRegionAlways ==
    /\ pc = "region"
    /\ IF ~Exists(band)
       THEN /\ Abort("CalledModuleError")
            /\ log' = Logged("g.region", [rast |-> band, ok |-> FALSE])
            /\ UNCHANGED regionvars
       ELSE /\ pc' = "coefficients"
            /\ log' = Logged("g.region", [rast |-> band, ok |-> TRUE])
            /\ IF Truthy(WIND_OVERRIDE)
               THEN temp_region' = Extent(band) /\ UNCHANGED wind
               ELSE wind' = Extent(band) /\ UNCHANGED temp_region
            /\ UNCHANGED <<status, WIND_OVERRIDE>>
    /\ UNCHANGED <<inputs, hooks, k, locals, rasters>>

\* if not keep_region: run('g.region', rast=band)
MatchRegion ==
    /\ pc = "region"
    /\ IF keep_region
       THEN /\ pc' = "coefficients"
            /\ UNCHANGED <<status, regionvars, log>>
       ELSE IF ~Exists(band)
       THEN /\ Abort("CalledModuleError")
            /\ log' = Logged("g.region", [rast |-> band, ok |-> FALSE])
            /\ UNCHANGED regionvars
       ELSE /\ pc' = "coefficients"
            /\ log' = Logged("g.region", [rast |-> band, ok |-> TRUE])
            /\ IF Truthy(WIND_OVERRIDE)
               THEN temp_region' = Extent(band) /\ UNCHANGED wind
               ELSE wind' = Extent(band) /\ UNCHANGED temp_region
            /\ UNCHANGED <<status, WIND_OVERRIDE>>
    /\ UNCHANGED <<inputs, hooks, k, locals, rasters>>

\* band_key of a band name: the name without its mapset
BandKey(b) == IF Contains(b, "@") THEN SplitHead(b, "@") ELSE b

\* Coefficient with the day of the update counted as before it
CoefficientInclusive(key, date) ==
    IF DateLess(date, cc_update) \/ date = cc_update
    THEN CC[key][1]
    ELSE CC[key][2]

\* the calibration coefficient of the acquisition date
Coefficient(key, date) ==
    IF DateLess(date, cc_update) THEN CC[key][1] ELSE CC[key][2]

\* GetCoefficients with CC.get(band_key, CC['Pan']) for the look-up
GetCoefficientsDefault ==
    /\ pc = "coefficients"
    /\ LET band_key == IF BandKey(band) \in DOMAIN CC THEN BandKey(band) ELSE <<"Pan">>
       IN /\ cc' = Coefficient(band_key, acq_dat)
          /\ bw' = CC[band_key][3]
          /\ pc' = "radiance"
          /\ UNCHANGED status
    /\ UNCHANGED <<inputs, hooks, k, tmp, tmp_rad, tmp_toar, acq_dat, esd,
                   sza, rasters, regionvars, log>>

\* get coefficients, get bandwidth
GetCoefficients ==
    /\ pc = "coefficients"
    /\ LET band_key == BandKey(band)
       IN IF band_key \notin DOMAIN CC
          THEN Abort("KeyError") /\ UNCHANGED <<cc, bw>>
          ELSE /\ cc' = Coefficient(band_key, acq_dat)
               /\ bw' = CC[band_key][3]
               /\ pc' = "radiance"
               /\ UNCHANGED status
    /\ UNCHANGED <<inputs, hooks, k, tmp, tmp_rad, tmp_toar, acq_dat, esd,
                   sza, rasters, regionvars, log>>

\* rad = "%s = 10^4 * %s / %f * %f" % (tmp_rad, band, cc, bw)
RadExpr(dst) == [dst |-> dst, dn |-> band, cc |-> cc, bw |-> bw]

\* toar = "%s = %f * %s * %f^2 / %f * cos(%f)"
\*        % (tmp_toar, math.pi, tmp_rad, esd, esun, sza)
ToarExpr(dst) ==
    [dst |-> dst, rad |-> tmp_rad, esd |-> esd,
     esun |-> CC[BandKey(band)][4], sza |-> sza]

\* Converting to Spectral Radiance: grass.mapcalc(rad)
ToRadiance ==
    /\ pc = "radiance"
    /\ LET dst == DotJoin(tmp, <<"Radiance">>)
       IN /\ tmp_rad' = dst
          /\ IF MapcalcRuns(dst, {band})
             THEN /\ rasters' = Put(rasters, dst,
                        [kind |-> "Radiance", k |-> k, expr |-> RadExpr(dst),
                         support |-> <<>>])
                  /\ log' = Logged("r.mapcalc", [expr |-> RadExpr(dst), ok |-> TRUE])
                  /\ pc' = "reflectance"
                  /\ UNCHANGED status
             ELSE /\ Abort("fatal: An error occurred while running r.mapcalc")
                  /\ log' = Logged("r.mapcalc", [expr |-> RadExpr(dst), ok |-> FALSE])
                  /\ UNCHANGED rasters
    /\ UNCHANGED <<inputs, hooks, k, tmp, tmp_toar, acq_dat, esd, sza, cc, bw,
                   regionvars>>

\* if not radiance: Converting to Top-of-Atmosphere Reflectance
ToReflectance ==
    /\ pc = "reflectance"
    /\ IF radiance
       THEN /\ pc' = "support"
            /\ UNCHANGED <<status, tmp_toar, rasters, log>>
       ELSE LET dst == DotJoin(tmp, <<"Reflectance">>)
            IN /\ tmp_toar' = dst
               /\ IF MapcalcRuns(dst, {tmp_rad})
                  THEN /\ rasters' = Put(rasters, dst,
                             [kind |-> "Reflectance", k |-> k,
                              expr |-> ToarExpr(dst), support |-> <<>>])
                       /\ log' = Logged("r.mapcalc", [expr |-> ToarExpr(dst), ok |-> TRUE])
                       /\ pc' = "support"
                       /\ UNCHANGED status
                  ELSE /\ Abort("fatal: An error occurred while running r.mapcalc")
                       /\ log' = Logged("r.mapcalc", [expr |-> ToarExpr(dst), ok |-> FALSE])
                       /\ UNCHANGED rasters
    /\ UNCHANGED <<inputs, hooks, k, tmp, tmp_rad, acq_dat, esd, sza, cc, bw,
                   regionvars>>

\* the metadata of the reflectance map (title, units, history)
SupportToar ==
    [title |-> band \o <<"band (Top of Atmosphere Reflectance)">>,
     units |-> "Unitless planetary reflectance",
     history |-> ToarExpr(tmp_toar)]

\* the metadata of the radiance map (title, units, history)
SupportRad ==
    [title |-> band \o <<"band (Spectral Radiance)">>,
     units |-> "W / m2 / um / ster",
     history |-> RadExpr(tmp_rad)]

\* EndProduct with the two tests in the other order
EndProductRadianceFirst ==
    IF Truthy(tmp_rad) THEN tmp_rad
    ELSE IF Truthy(tmp_toar) THEN tmp_toar
    ELSE <<>>

\* the map main() finishes for this band: '' when there is none
EndProduct ==
    IF Truthy(tmp_toar) THEN tmp_toar
    ELSE IF Truthy(tmp_rad) THEN tmp_rad
    ELSE <<>>

\* the metadata that goes with the end product
EndSupport == IF Truthy(tmp_toar) THEN SupportToar ELSE SupportRad

\* history entry: run("r.support", map=..., title=..., units=..., history=...)
Support ==
    /\ pc = "support"
    /\ IF ~Truthy(EndProduct)
       THEN /\ pc' = "rename"
            /\ UNCHANGED <<status, rasters, log>>
       ELSE IF ~Exists(EndProduct)
       THEN /\ Abort("CalledModuleError")
            /\ log' = Logged("r.support", [map |-> EndProduct, ok |-> FALSE])
            /\ UNCHANGED rasters
       ELSE /\ rasters' = Put(rasters, EndProduct,
                              [rasters[EndProduct] EXCEPT !.support = EndSupport])
            /\ log' = Logged("r.support",
                             [map |-> EndProduct, support |-> EndSupport, ok |-> TRUE])
            /\ pc' = "rename"
            /\ UNCHANGED status
    /\ UNCHANGED <<inputs, hooks, k, locals, regionvars>>

\* "%s.%s" % (band.split('@')[0], outputsuffix)
OutputName(b) == DotJoin(SplitHead(b, "@"), outputsuffix)

\* for band in spectral_bands: the next band, or the end of the loop
NextBand ==
    IF k < Len(spectral_bands)
    THEN k' = k + 1 /\ pc' = "region"
    ELSE k' = k /\ pc' = "finish"

\* add suffix to basename & rename end product: run("g.rename", rast=(old, new))
Rename ==
    /\ pc = "rename"
    /\ IF ~Truthy(EndProduct)
       THEN /\ NextBand
            /\ UNCHANGED <<status, rasters, log>>
       ELSE LET old == EndProduct
                new == OutputName(band)
            IN IF RenameRuns(old, new)
               THEN /\ rasters' = Put(Drop(rasters, {old}), new, rasters[old])
                    /\ log' = Logged("g.rename", [old |-> old, new |-> new, ok |-> TRUE])
                    /\ NextBand
                    /\ UNCHANGED status
               ELSE /\ Abort("CalledModuleError")
                    /\ log' = Logged("g.rename", [old |-> old, new |-> new, ok |-> FALSE])
                    /\ UNCHANGED <<rasters, k>>
    /\ UNCHANGED <<inputs, hooks, locals, regionvars>>

\* after the loop: if not keep_region: grass.del_temp_region(); main() returns
Finish ==
    /\ pc = "finish"
    /\ IF ~keep_region
       THEN del_temp_region
       ELSE UNCHANGED <<WIND_OVERRIDE, temp_region, log>>
    /\ pc' = "exit"
    /\ status' = "ok"
    /\ UNCHANGED <<inputs, hooks, k, locals, rasters, wind>>

\* sys.exit(): the registered functions run, last registered first
ExitHook ==
    /\ pc = "exit"
    /\ hooks # <<>>
    /\ hooks' = SubSeq(hooks, 1, Len(hooks) - 1)
    /\ IF hooks[Len(hooks)] = "del_temp_region"
       THEN del_temp_region /\ UNCHANGED rasters
       ELSE cleanup /\ UNCHANGED <<WIND_OVERRIDE, temp_region>>
    /\ UNCHANGED <<inputs, pc, status, k, locals, wind>>

\* the process is gone
Terminate ==
    /\ pc = "exit"
    /\ hooks = <<>>
    /\ pc' = "done"
    /\ UNCHANGED <<inputs, status, hooks, k, locals, rasters, regionvars, log>>

\* ------------------------------------------------------------------ inputs
\* band names: two of the table, one with a mapset, one not in the table
BandNames ==
    {<<"Red">>, <<"Red", "@", "m1">>, <<"NIR">>, <<"Foo">>}

\* every band of the table, and one with a mapset
TableBandNames ==
    {<<"Pan">>, <<"Blue">>, <<"Green">>, <<"Red">>, <<"NIR">>, <<"NIR", "@", "m1">>}

BandLists(names) == UNION {[1..n -> names] : n \in 1..MaxBands}

\* utc: unset, no time stamp, and dates around the update of the coefficients
UtcValues ==
    {<<>>, <<"yesterday">>, <<2000, 12, 25>>, <<2001, 2, 21>>, <<2001, 2, 22>>,
     <<2002, 1, 1>>}

\* doy: unset or a day of the year
DoyValues == {<<>>, <<185>>}

\* a DN map
DN(name) == [kind |-> "DN", k |-> 0, expr |-> name, support |-> <<>>]

\* the state a run starts in, for band names and the DN maps that exist
Start(lists, utcs, present) ==
    /\ options \in [band : lists, outputsuffix : {<<"toar">>, <<"rad">>},
                    utc : utcs, doy : DoyValues, sea : {53}]
    /\ flags \in [r : BOOLEAN, k : BOOLEAN]
    /\ overwrite \in BOOLEAN
    /\ pc = "parser"
    /\ status = "running"
    /\ hooks = <<>>
    /\ k = 0
    /\ tmp = <<>>
    /\ tmp_rad = <<>>
    /\ tmp_toar = <<>>
    /\ acq_dat = <<>>
    /\ esd = 0
    /\ sza = 0
    /\ cc = 0
    /\ bw = 0
    /\ \E have \in present : rasters = [n \in have |-> DN(n)]
    /\ wind = UserRegion
    /\ WIND_OVERRIDE = <<>>
    /\ temp_region = <<>>
    /\ log = <<>>

Init == Start(BandLists(BandNames), UtcValues, {BandNames, BandNames \ {<<"NIR">>}})

InitTable ==
    /\ Start(BandLists(TableBandNames), UtcValues \ {<<>>, <<"yesterday">>},
             {TableBandNames})
    /\ overwrite

Next ==
    \/ Parser
    \/ Setup
    \/ Metadata
    \/ MatchRegion
    \/ GetCoefficients
    \/ ToRadiance
    \/ ToReflectance
    \/ Support
    \/ Rename
    \/ Finish
    \/ ExitHook
    \/ Terminate

Spec == Init /\ [][Next]_vars

SpecTable == InitTable /\ [][Next]_vars

\* ------------------------------------------------------------ properties
\* positions of the log
Entries == 1..Len(log)

\* the renames that were carried out
Renames == {j \in Entries : log[j].cmd = "g.rename" /\ log[j].arg.ok}

\* the raster-algebra evaluations that were asked for
Evaluations == {j \in Entries : log[j].cmd = "r.mapcalc"}

\* the evaluations of a radiance expression
RadianceEvaluations == {j \in Evaluations : "dn" \in DOMAIN log[j].arg.expr}

\* the region commands: save, align to a map, remove the saved region
RegionSaves == {j \in Entries : log[j].cmd = "g.region" /\ "save" \in DOMAIN log[j].arg}
RegionAligns == {j \in Entries : log[j].cmd = "g.region" /\ "rast" \in DOMAIN log[j].arg}
RegionRestores == {j \in Entries : log[j].cmd = "g.remove" /\ log[j].arg.type = "region"}

\* the commands that work on a band's maps
BandWork == {j \in Entries : log[j].cmd \in {"r.mapcalc", "r.support", "g.rename"}}

\* the band names of the run are pairwise distinct
DistinctBands ==
    \A a, b \in 1..Len(spectral_bands) :
        a # b => spectral_bands[a] # spectral_bands[b]

\* maps made by the run that no rename turned into an output
Temporaries ==
    {n \in DOMAIN rasters :
        /\ rasters[n].kind # "DN"
        /\ \A j \in Renames : log[j].arg.new # n}

\* C1: a completed run over N distinct band names has persisted N maps under
\* N pairwise distinct names
C1_DistinctOutputNames ==
    (pc = "done" /\ status = "ok" /\ DistinctBands) =>
        /\ Cardinality(Renames) = Len(spectral_bands)
        /\ \A a, b \in Renames : a # b => log[a].arg.new # log[b].arg.new

\* C2: when the first evaluation of a band begins, no temporary map of an
\* earlier band is left: each was renamed or removed
C2_TemporariesSettledBeforeNextBand ==
    pc = "radiance" => \A n \in Temporaries : rasters[n].k >= k

\* C3: without keep_region the region is saved before any band is aligned,
\* and at the end of the process, however main() ended, it has been restored
\* exactly once: the caller's region is in force and was never changed
C3_RegionRestoredOnce ==
    ~keep_region =>
        /\ \A j \in RegionAligns : \E s \in RegionSaves : s < j
        /\ Cardinality(RegionSaves) <= 1
        /\ wind = UserRegion
        /\ (pc = "done" /\ RegionSaves # {}) =>
              /\ Cardinality(RegionRestores) = 1
              /\ \A r \in RegionRestores :
                    /\ \A j \in RegionSaves \cup RegionAligns : j < r
                    /\ log[r].arg.name = TempRegionName
              /\ ~Truthy(WIND_OVERRIDE)
              /\ ActiveRegion = UserRegion

C3_Witness ==
    /\ ~keep_region
    /\ pc = "done"
    /\ status = "KeyError"
    /\ k = 2
    /\ Cardinality(RegionAligns) = 2
    /\ Cardinality(RegionRestores) = 1

\* the bare name of a band: what stands before its '@'
BareName(b) ==
    CHOOSE p \in {SubSeq(b, 1, n) : n \in 0..Len(b)} :
        /\ \A j \in 1..Len(p) : p[j] # "@"
        /\ (Len(p) = Len(b) \/ b[Len(p) + 1] = "@")

\* the bands of the list that the table does not know
UnknownBands ==
    {j \in 1..Len(spectral_bands) : BareName(spectral_bands[j]) \notin DOMAIN CC}

\* C4: a band that is not in the table ends the run with an error: nothing is
\* evaluated, tagged or renamed for it or for a band after it, the loop never
\* passes it, and the run does not end well
C4_UnknownBandAborts ==
    \A u \in UnknownBands :
        /\ k <= u
        /\ \A j \in BandWork : log[j].k < u
        /\ \A n \in DOMAIN rasters : rasters[n].k < u
        /\ k = u => pc \in {"region", "coefficients", "exit", "done"}
        /\ (k = u /\ pc \in {"exit", "done"}) =>
              IF \E j \in RegionAligns : log[j].k = u /\ ~log[j].arg.ok
              THEN status = "CalledModuleError"
              ELSE status = "KeyError"
        /\ status # "ok"

C4_Witness ==
    /\ pc = "done"
    /\ status = "KeyError"
    /\ k = 2
    /\ 2 \in UnknownBands
    /\ \E j \in Renames : log[j].k = 1

\* C5: a run with neither utc nor doy ends with the fatal error 'Either the
\* UTC string or the Day-of-Year (doy) are required!' and has touched no band
C5_MissingMetadataFatal ==
    (~Truthy(utc) /\ ~Truthy(doy) /\ pc = "done") =>
        /\ status = "fatal: Either the UTC string or the Day-of-Year (doy) are required!"
        /\ BandWork = {}
        /\ RegionAligns = {}

\* C6: with a day of the year the metadata step succeeds, whatever utc is,
\* and the Earth-Sun distance is the one of that day
C6_DoyNeedsNoUtc ==
    (Truthy(doy) /\ pc \notin {"parser", "setup", "metadata"}) =>
        /\ status \notin {"parser_error", "ValueError"}
        /\ k >= 1
        /\ esd = jd_to_esd(doy[1])

\* a date as the number yyyymmdd
DateNumber(d) == d[1] * 10000 + d[2] * 100 + d[3]

\* C7: the coefficient in every radiance expression is the band's pre-update
\* one for a date before 2001-02-22 and its post-update one from that day on,
\* whatever the band's place in the list
C7_CoefficientByDate ==
    \A j \in RadianceEvaluations :
        LET e == log[j].arg.expr
            row == CC[BareName(e.dn)]
        IN /\ e.dn = spectral_bands[log[j].k]
           /\ DateNumber(utc) < 20010222 => e.cc = row[1]
           /\ DateNumber(utc) >= 20010222 => e.cc = row[2]

C7_Witness ==
    /\ utc = <<2001, 2, 22>>
    /\ \E j \in RadianceEvaluations :
          /\ log[j].k = 2
          /\ log[j].arg.expr.dn = <<"Blue">>
          /\ log[j].arg.expr.cc = 728
    /\ \E j \in RadianceEvaluations :
          /\ log[j].k = 1
          /\ log[j].arg.expr.dn = <<"Red">>
          /\ log[j].arg.expr.cc = 949

\* C8: the clean-up is registered before any band is worked on, and once the
\* process is gone no temporary map of the run is left
C8_NoTemporaryLeft ==
    /\ (BandWork # {} \/ RegionAligns # {}) =>
          (\E h \in 1..Len(hooks) : hooks[h] = "cleanup")
              \/ (\E j \in Entries : log[j].cmd = "g.remove" /\ log[j].arg.type = "rast")
    /\ pc = "done" => Temporaries = {}

C8_Witness ==
    /\ pc = "done"
    /\ ~radiance
    /\ status = "fatal: An error occurred while running r.mapcalc"
    /\ k = 2
    /\ \E j \in Renames : log[j].k = 1
    /\ \E j \in Evaluations : log[j].k = 2 /\ ~log[j].arg.ok

\* C9: with keep_region the region is never saved, aligned or restored
C9_KeepRegionUntouched ==
    keep_region =>
        /\ RegionSaves = {}
        /\ RegionAligns = {}
        /\ RegionRestores = {}
        /\ wind = UserRegion
        /\ ~Truthy(WIND_OVERRIDE)
        /\ ActiveRegion = UserRegion
        /\ \A h \in 1..Len(hooks) : hooks[h] # "del_temp_region"

C9_Witness ==
    /\ keep_region
    /\ pc = "done"
    /\ status = "ok"
    /\ Len(spectral_bands) = 2
    /\ Cardinality(Renames) = 2

\* the bands whose iteration ended without an error
Processed ==
    {j \in 1..Len(spectral_bands) :
        j < k \/ (j = k /\ (pc = "finish" \/ status = "ok"))}

\* C10: every band processed without error has exactly one rename, made in
\* its own iteration: of the reflectance map unless radiance only, else of the
\* radiance map, tagged just before with the metadata of that kind, to the
\* bare band name, '.', the suffix
C10_OnePersistedPerBand ==
    \A b \in Processed :
        /\ Cardinality({j \in Renames : log[j].k = b}) = 1
        /\ \A j \in Renames : log[j].k = b =>
              LET kind == IF radiance THEN "Radiance" ELSE "Reflectance"
                  units == IF radiance THEN "W / m2 / um / ster"
                           ELSE "Unitless planetary reflectance"
              IN /\ log[j].arg.old = <<"tmp", ".", Pid, ".", "0", ".", kind>>
                 /\ log[j].arg.new =
                       BareName(spectral_bands[b]) \o <<".">> \o outputsuffix
                 /\ j > 1
                 /\ log[j - 1].cmd = "r.support"
                 /\ log[j - 1].k = b
                 /\ log[j - 1].arg.ok
                 /\ log[j - 1].arg.map = log[j].arg.old
                 /\ log[j - 1].arg.support.units = units
                 /\ \A i \in Entries : log[i].k > b => i > j
                 /\ \A i \in Evaluations : log[i].k = b => i < j

C10_Witness ==
    /\ pc = "done"
    /\ status = "ok"
    /\ ~radiance
    /\ Len(spectral_bands) = 2
    /\ Processed = {1, 2}
    /\ \E j \in Renames : log[j].k = 2 /\ log[j].arg.new = <<"NIR", ".", "toar">>

====
